---- MODULE Spec2Model ----
(***************************************************************************)
(* The LaTeX pretty printer of latex-parser: the prettier plugin           *)
(* src/src/prettier-plugin-latex.js (printLatexAst and its helpers,        *)
(* formatAlignedContent) and the later TypeScript dispatcher               *)
(* (src/unnamed/part_000, lines 276-373).                                  *)
(*                                                                         *)
(* Strings are sequences of one-character strings, so that lengths,        *)
(* padding and concatenation are computed as the code computes them.       *)
(* A Doc of the layout engine is a record [k, s, parts]; a JavaScript      *)
(* array of docs (a "flat" print result) is the record of kind "array".    *)
(***************************************************************************)
EXTENDS Integers, Sequences, FiniteSets, TLC

VARIABLES
    impl,       \* which dispatcher prints: "js" (the plugin) or "ts" (the TypeScript printer)
    ast,        \* the sequence of top-level nodes handed to the print pass
    options,    \* the shared print options: [inMathMode, referenceMap]
    pc,         \* position of the pass: "ready", "elements", "done"
    mode0,      \* options.inMathMode when the root call tested it
    docs,       \* the print results of the top-level elements printed so far
    doc,        \* the Doc returned by the pass (NoDoc before it returns)
    calls,      \* every printLatexAst call of the pass: node, siblings, mode at entry/return, result
    arrays,     \* every printLatexAst call of the pass on an array: elements, mode, element docs, result
    warnings,   \* number of console.warn calls so far
    rows,       \* formatAlignedContent: the rows parseAlignEnvironment returned
    formatted   \* formatAlignedContent: its result, with the column widths it computed

vars == <<impl, ast, options, pc, mode0, docs, doc, calls, arrays, warnings, rows, formatted>>

(***************************************************************************)
(* Bounds of the model.                                                    *)
(***************************************************************************)
MaxLen == 3         \* longest top-level sequence built from the basic nodes
MaxBodyLen == 2     \* longest content sequence of a nested node
MaxRows == 2        \* most rows of an aligned body
MaxCellWidth == 2   \* widest cell text of an aligned body

(***************************************************************************)
(* Strings.                                                                *)
(***************************************************************************)
ESCAPE == <<"\\">>
SPACE == <<" ">>
PERCENT == <<"%">>
DOLLAR == <<"$">>
LBRACE == <<"{">>
RBRACE == <<"}">>
LBRACKET == <<"[">>
RBRACKET == <<"]">>
NEWLINE == <<"\n">>
BEGIN == <<"b", "e", "g", "i", "n", "{">>
END == <<"e", "n", "d", "{">>
AMP == <<"&">>

RECURSIVE getSpace(_)
getSpace(len) == IF len <= 0 THEN <<>> ELSE SPACE \o getSpace(len - 1)

RECURSIVE Join(_)
\* concatenation of a sequence of strings (Array.prototype.join(""))
Join(ss) == IF ss = <<>> THEN <<>> ELSE Head(ss) \o Join(Tail(ss))

(***************************************************************************)
(* Docs: the builders of Prettier.doc.builders the plugin uses.            *)
(***************************************************************************)
Text(s) == [k |-> "text", s |-> s, parts |-> <<>>]
line == [k |-> "line", s |-> <<>>, parts |-> <<>>]
softline == [k |-> "softline", s |-> <<>>, parts |-> <<>>]
hardline == [k |-> "hardline", s |-> <<>>, parts |-> <<>>]
concat(ds) == [k |-> "concat", s |-> <<>>, parts |-> ds]
fill(ds) == [k |-> "fill", s |-> <<>>, parts |-> ds]
indent(d) == [k |-> "indent", s |-> <<>>, parts |-> <<d>>]
Array(ds) == [k |-> "array", s |-> <<>>, parts |-> ds]
NoDoc == [k |-> "none", s |-> <<>>, parts |-> <<>>]

\* the `.type` property a result has in JavaScript: `line` and `softline` are
\* {type: "line"}, `hardline` is a concat, strings and arrays have none
DocType(d) ==
    CASE d.k \in {"line", "softline"} -> "line"
      [] d.k = "hardline" -> "concat"
      [] d.k \in {"text", "array", "none"} -> "undefined"
      [] OTHER -> d.k

\* [].concat(...content): arrays are spliced in, every other value is appended
Spread(d) == IF d.k = "array" THEN d.parts ELSE <<d>>

RECURSIVE SpreadAll(_)
SpreadAll(ds) == IF ds = <<>> THEN <<>> ELSE Spread(Head(ds)) \o SpreadAll(Tail(ds))

(***************************************************************************)
(* AST nodes (spec.md section 3).  Optional fields are sequences of length *)
(* at most one: <<>> is null/undefined.                                    *)
(***************************************************************************)
NoInfo == [alignContent |-> FALSE, inMathMode |-> <<>>, hangingIndent |-> FALSE, inParMode |-> FALSE]

Node(type) ==
    [type |-> type, text |-> <<>>, content |-> <<>>, args |-> <<>>, env |-> <<>>,
     sameline |-> FALSE, suffixParbreak |-> FALSE, leadingWhitespace |-> FALSE,
     escapeToken |-> <<>>, openMark |-> <<>>, closeMark |-> <<>>, escape |-> <<>>,
     renderInfo |-> NoInfo, rows |-> <<>>]

\* the sentinel the printer uses for "no such sibling"
EMPTY_OBJECT == Node("undefined")

String(t) == [Node("string") EXCEPT !.text = t]
\* the values print can be handed that are no node: null, and a plain string
Null == Node("null")
PlainString(t) == [Node("plainstring") EXCEPT !.text = t]
NonNodeTypes == {"null", "plainstring"}
\* a node of type "root" found inside a tree
Root(content) == [Node("root") EXCEPT !.content = content]
Whitespace == Node("whitespace")
Parbreak == Node("parbreak")
Comment(t, sameline, leadingWhitespace) ==
    [Node("comment") EXCEPT !.text = t, !.sameline = sameline, !.leadingWhitespace = leadingWhitespace]
Argument(open, content, close) ==
    [Node("argument") EXCEPT !.openMark = open, !.content = content, !.closeMark = close]
Macro(name, escapeToken, args, info) ==
    [Node("macro") EXCEPT !.text = name, !.escapeToken = escapeToken, !.args = args, !.renderInfo = info]
Group(content) == [Node("group") EXCEPT !.content = content]
Environment(type, name, args, content, info) ==
    [Node(type) EXCEPT !.env = <<name>>, !.args = args, !.content = content, !.renderInfo = info]
Verbatim(name, body) == [Node("verbatim") EXCEPT !.env = <<name>>, !.text = body]
Verb(name, escape, body) == [Node("verb") EXCEPT !.env = <<name>>, !.escape = escape, !.text = body]
DisplayMath(content) == [Node("displaymath") EXCEPT !.content = content]
InlineMath(content) == [Node("inlinemath") EXCEPT !.content = content]

(***************************************************************************)
(* printRaw (libs/parser, spec.md section 4.4): the exact serialization of *)
(* a subtree.  With asArray it returns the tokens, a comment and a         *)
(* paragraph break contributing `linebreak` tokens.                        *)
(***************************************************************************)
linebreak == NEWLINE

RECURSIVE printRawTokens(_), printRawSeqTokens(_)
printRawTokens(node) ==
    CASE node.type = "string" -> <<node.text>>
      [] node.type = "whitespace" -> <<SPACE>>
      [] node.type = "parbreak" -> <<linebreak, linebreak>>
      [] node.type = "comment" -> <<PERCENT, node.text, linebreak>>
      [] node.type = "macro" ->
            <<IF node.escapeToken = <<>> THEN ESCAPE ELSE node.escapeToken[1], node.text>>
                \o printRawSeqTokens(node.args)
      [] node.type = "argument" ->
            <<node.openMark>> \o printRawSeqTokens(node.content) \o <<node.closeMark>>
      [] node.type = "group" -> <<LBRACE>> \o printRawSeqTokens(node.content) \o <<RBRACE>>
      [] node.type = "inlinemath" -> <<DOLLAR>> \o printRawSeqTokens(node.content) \o <<DOLLAR>>
      [] node.type = "displaymath" ->
            <<ESCAPE \o LBRACKET>> \o printRawSeqTokens(node.content) \o <<ESCAPE \o RBRACKET>>
      [] node.type \in {"environment", "mathenv"} ->
            <<ESCAPE \o BEGIN \o node.env[1] \o RBRACE>> \o printRawSeqTokens(node.args)
                \o printRawSeqTokens(node.content) \o <<ESCAPE \o END \o node.env[1] \o RBRACE>>
      [] node.type = "verbatim" ->
            <<ESCAPE \o BEGIN \o node.env[1] \o RBRACE, node.text, ESCAPE \o END \o node.env[1] \o RBRACE>>
      [] node.type = "verb" -> <<ESCAPE, node.env[1], node.escape, node.text, node.escape>>
      [] node.type = "root" -> printRawSeqTokens(node.content)
      [] OTHER -> <<node.text>>

printRawSeqTokens(nodes) ==
    IF nodes = <<>> THEN <<>> ELSE printRawTokens(Head(nodes)) \o printRawSeqTokens(Tail(nodes))

\* printRaw(x) of a node, of a sequence of nodes and of a string
printRaw(node) == Join(printRawTokens(node))
printRawSeq(nodes) == Join(printRawSeqTokens(nodes))

(***************************************************************************)
(* ReferenceMap (libs/macro-utils, spec.md section 4.2): previous and next *)
(* sibling of the element at index i of the sequence that holds it.        *)
(***************************************************************************)
\* options.referenceMap: none, or the map made by traversing the tree `node`
NoMap == <<>>
ReferenceMap(node) == <<node>>
getPreviousNode(seq, i) == IF i > 1 /\ i <= Len(seq) THEN seq[i - 1] ELSE EMPTY_OBJECT
getNextNode(seq, i) == IF i >= 1 /\ i < Len(seq) THEN seq[i + 1] ELSE EMPTY_OBJECT

(***************************************************************************)
(* The printer.  Every operator that prints returns [doc, m, calls]: the   *)
(* result, options.inMathMode when it returns, and the printLatexAst calls *)
(* made.                                                                   *)
(***************************************************************************)
Res(d, m, c) == [doc |-> d, m |-> m, calls |-> c]

KnownTypes ==
    {"argument", "comment", "environment", "mathenv", "verbatim", "displaymath", "group",
     "inlinemath", "macro", "parbreak", "string", "verb", "whitespace"}

\* one printLatexAst call: `warned` when it went through console.warn
Call(node, previousNode, nextNode, in, out, d) ==
    [node |-> node, previousNode |-> previousNode, nextNode |-> nextNode,
     in |-> in, out |-> out, doc |-> d, warned |-> node.type \notin KnownTypes \cup NonNodeTypes, elems |-> <<>>]

\* one printLatexAst call on an array: `elems` is path.map(printFlatVersion)
ArrayNode(seq) == [Node("array") EXCEPT !.content = seq]
ArrayCall(seq, in, out, elems, d) ==
    [node |-> ArrayNode(seq), previousNode |-> EMPTY_OBJECT, nextNode |-> EMPTY_OBJECT,
     in |-> in, out |-> out, doc |-> d, warned |-> FALSE, elems |-> elems]
NodeCalls(cs) == {c \in cs : c.node.type # "array"}
ArrayCalls(cs) == {c \in cs : c.node.type = "array"}

\* printLatexAst, lines 281-294: render info with startNode / endNode
getRenderInfo(node, previousNode, nextNode) ==
    [alignContent |-> node.renderInfo.alignContent,
     inMathMode |-> node.renderInfo.inMathMode,
     hangingIndent |-> node.renderInfo.hangingIndent,
     inParMode |-> node.renderInfo.inParMode,
     endNode |-> nextNode = EMPTY_OBJECT,
     startNode |-> previousNode = EMPTY_OBJECT]

RECURSIVE joinWithSoftlineFrom(_, _)
joinWithSoftlineFrom(arr, i) ==
    IF i > Len(arr) THEN <<>>
    ELSE (IF DocType(arr[i]) # "line" /\ DocType(arr[i - 1]) # "line" THEN <<softline>> ELSE <<>>)
            \o <<arr[i]>> \o joinWithSoftlineFrom(arr, i + 1)

\* joinWithSoftline that does not look for lines
joinWithSoftlineAll(arr) ==
    IF Len(arr) = 0 \/ Len(arr) = 1 THEN arr
    ELSE <<arr[1]>> \o [p \in 1..(2 * (Len(arr) - 1)) |-> IF p % 2 = 1 THEN softline ELSE arr[p \div 2 + 1]]

joinWithSoftline(arr) ==
    IF Len(arr) = 0 \/ Len(arr) = 1 THEN arr
    ELSE <<arr[1]>> \o joinWithSoftlineFrom(arr, 2)

\* printComment with a leading break in front of a stacked comment too
printCommentUnstacked(node, previousNode, renderInfo) ==
    LET content == <<Text(PERCENT \o node.text)>>
        trailing == IF ~node.suffixParbreak /\ ~renderInfo.endNode THEN <<hardline>> ELSE <<>>
        leading == IF ~renderInfo.startNode THEN <<hardline>> ELSE <<>>
    IN IF node.sameline
       THEN concat(content \o trailing)
       ELSE concat(leading \o content \o trailing)

\* case "comment"
printComment(node, previousNode, renderInfo) ==
    LET content == <<Text(PERCENT \o node.text)>>
        trailing == IF ~node.suffixParbreak /\ ~renderInfo.endNode THEN <<hardline>> ELSE <<>>
        leading == IF ~renderInfo.startNode /\ previousNode.type # "comment" THEN <<hardline>> ELSE <<>>
    IN IF node.sameline
       THEN concat(content \o trailing)
       ELSE concat(leading \o content \o trailing)

\* printWhitespace that takes a verb for an environment
printWhitespaceAnyEnv(previousNode, nextNode) ==
    IF nextNode.env # <<>> \/ nextNode.type = "displaymath"
    THEN Text(<<>>)
    ELSE IF previousNode.env # <<>> \/ previousNode.type = "displaymath"
         THEN hardline
         ELSE line

\* case "whitespace" of the plugin
printWhitespace(previousNode, nextNode) ==
    IF (nextNode.env # <<>> /\ nextNode.type # "verb") \/ nextNode.type = "displaymath"
    THEN Text(<<>>)
    ELSE IF (previousNode.env # <<>> /\ previousNode.type # "verb") \/ previousNode.type = "displaymath"
         THEN hardline
         ELSE line

\* case "whitespace" of the TypeScript dispatcher
printWhitespaceTs(previousNode, nextNode) == line

\* case "group" of the plugin: the raw text of the content in one string
printGroup(node) == concat(<<Text(LBRACE), Text(printRawSeq(node.content)), Text(RBRACE)>>)

RECURSIVE groupTokens(_)
groupTokens(tokens) ==
    IF tokens = <<>> THEN <<>>
    ELSE <<IF Head(tokens) = linebreak THEN hardline ELSE Text(Head(tokens))>> \o groupTokens(Tail(tokens))

\* case "group" of the TypeScript dispatcher: raw tokens, `linebreak` made a hardline
printGroupTs(node) ==
    concat(<<Text(LBRACE)>> \o groupTokens(printRawSeqTokens(node.content)) \o <<Text(RBRACE)>>)

formatEnvSurround(node) ==
    LET env == node.env[1]
    IN [envName |-> env,
        start |-> ESCAPE \o BEGIN \o env \o RBRACE,
        end |-> ESCAPE \o END \o env \o RBRACE,
        args |-> printRawSeq(node.args)]

\* the forced break before an environment or a display math
startToken(renderInfo, previousNode) ==
    IF renderInfo.startNode \/ previousNode.type = "parbreak" \/ previousNode.type = "comment"
    THEN <<>>
    ELSE <<hardline>>

\* `node.content.length` and `node.content[0]`: a verbatim's content is its raw text
contentLength(node) == IF node.type = "verbatim" THEN Len(node.text) ELSE Len(node.content)
firstContent(node) ==
    IF node.type # "verbatim" /\ Len(node.content) > 0 THEN node.content[1] ELSE EMPTY_OBJECT

\* bodyStartToken that drops the whitespace in front of a same-line comment
bodyStartTokenNoSpace(node) ==
    IF contentLength(node) = 0 \/ (firstContent(node).type = "comment" /\ firstContent(node).sameline)
    THEN <<>>
    ELSE <<hardline>>

\* the start of an environment's body
bodyStartToken(node) ==
    IF contentLength(node) = 0 \/ (firstContent(node).type = "comment" /\ firstContent(node).sameline)
    THEN IF contentLength(node) > 0 /\ firstContent(node).leadingWhitespace
         THEN <<Text(SPACE)>>
         ELSE <<>>
    ELSE <<hardline>>

\* the start of a display math's body
bodyStartTokenMath(node) ==
    IF contentLength(node) = 0 \/ (firstContent(node).type = "comment" /\ firstContent(node).sameline)
    THEN <<>>
    ELSE <<hardline>>

\* printEmptyInlineMath with a line for the space
printEmptyInlineMathLine == concat(<<Text(DOLLAR), line, Text(DOLLAR)>>)

\* case "inlinemath" with empty content
printEmptyInlineMath == concat(<<Text(DOLLAR), Text(SPACE), Text(DOLLAR)>>)

\* macroEscape that takes an empty override for none (`||` for `== null`)
macroEscapeOr(node) ==
    IF node.escapeToken = <<>> \/ node.escapeToken[1] = <<>> THEN ESCAPE ELSE node.escapeToken[1]

\* printMacro, line 209
macroEscape(node) == IF node.escapeToken = <<>> THEN ESCAPE ELSE node.escapeToken[1]

\* printMacro, line 210: [].concat([escape, printRaw(node.content)], ...args)
flatBody(node, args) == <<Text(macroEscape(node)), Text(node.text)>> \o SpreadAll(args)

(***************************************************************************)
(* formatAlignedContent.  A row of parseAlignEnvironment (libs/, spec.md   *)
(* section 4.3) is [cells, colSeps, rowSep, trailingComment]: cells and    *)
(* separators are sequences of nodes, rowSep and trailingComment are <<>>  *)
(* when the row has none.                                                  *)
(***************************************************************************)
Row(cells, colSeps, rowSep, trailingComment) ==
    [cells |-> cells, colSeps |-> colSeps, rowSep |-> rowSep, trailingComment |-> trailingComment]

RECURSIVE trimStart(_)
trimStart(nodes) ==
    IF nodes # <<>> /\ Head(nodes).type = "whitespace" THEN trimStart(Tail(nodes)) ELSE nodes

RECURSIVE trimEnd(_)
trimEnd(nodes) ==
    IF nodes # <<>> /\ nodes[Len(nodes)].type = "whitespace"
    THEN trimEnd(SubSeq(nodes, 1, Len(nodes) - 1))
    ELSE nodes

\* trim (libs/macro-utils): the sequence without leading and trailing whitespace
trim(nodes) == trimEnd(trimStart(nodes))

\* `xs[i] || ""` with the 0-based index i of the code
At(xs, i) == IF i + 1 <= Len(xs) THEN xs[i + 1] ELSE <<>>

numCols(rs) == IF rs = <<>> THEN 0 ELSE CHOOSE n \in {Len(rs[j].cells) : j \in 1..Len(rs)} :
                                            \A j \in 1..Len(rs) : Len(rs[j].cells) <= n

rowSeps(rs) == [j \in 1..Len(rs) |-> printRawSeq(rs[j].rowSep)]
trailingComments(rs) == [j \in 1..Len(rs) |-> rs[j].trailingComment]

renderedRows(rs) ==
    [j \in 1..Len(rs) |->
        [cells |-> [c \in 1..Len(rs[j].cells) |-> printRawSeq(trim(rs[j].cells[c]))],
         seps |-> [c \in 1..Len(rs[j].colSeps) |-> printRawSeq(rs[j].colSeps[c])]]]

\* colWidth that counts the cell text only
colWidthOfCells(rendered, i) ==
    CHOOSE w \in {Len(At(rendered[j].cells, i)) : j \in 1..Len(rendered)} :
        \A j \in 1..Len(rendered) : Len(At(rendered[j].cells, i)) <= w

\* the width of column i (0-based): the widest cell text plus separator text
colWidth(rendered, i) ==
    CHOOSE w \in {Len(At(rendered[j].cells, i) \o At(rendered[j].seps, i)) : j \in 1..Len(rendered)} :
        \A j \in 1..Len(rendered) : Len(At(rendered[j].cells, i) \o At(rendered[j].seps, i)) <= w

colWidths(rs) == [c \in 1..numCols(rs) |-> colWidth(renderedRows(rs), c - 1)]

RECURSIVE joinCellsPadCell(_, _, _, _)
\* joinCells that pads the cell to the column width, separator not counted
joinCellsPadCell(cells, seps, widths, i) ==
    IF i >= Len(cells) THEN <<>>
    ELSE (IF i = 0 THEN <<>> ELSE SPACE)
            \o cells[i + 1]
            \o getSpace(widths[i + 1] - Len(cells[i + 1]) + 1)
            \o At(seps, i)
            \o joinCellsPadCell(cells, seps, widths, i + 1)

RECURSIVE joinCells(_, _, _, _)
\* the loop of lines 95-106, from the 0-based index i
joinCells(cells, seps, widths, i) ==
    IF i >= Len(cells) THEN <<>>
    ELSE LET width == widths[i + 1] - Len(At(seps, i))
         IN (IF i = 0 THEN <<>> ELSE SPACE)
                \o cells[i + 1]
                \o getSpace(width - Len(cells[i + 1]) + 1)
                \o At(seps, i)
                \o joinCells(cells, seps, widths, i + 1)

joinedRow(r, widths) ==
    IF Len(r.cells) = 1 /\ r.cells[1] = <<>> THEN <<>>
    ELSE joinCells(r.cells, r.seps, widths, 0)

joinedRows(rs) == [j \in 1..Len(rs) |-> joinedRow(renderedRows(rs)[j], colWidths(rs))]

formatAlignedContent(rs) ==
    [rows |-> joinedRows(rs), rowSeps |-> rowSeps(rs), trailingComments |-> trailingComments(rs)]

(***************************************************************************)
(* printEnvironmentContent, mode "aligned".  The body handed to            *)
(* parseAlignEnvironment is node.content without its leading same-line     *)
(* comment; the rows the sub-parser returns for it are node.rows.          *)
(***************************************************************************)
leadingComment(node) ==
    IF Len(node.content) > 0 /\ node.content[1].type = "comment" /\ node.content[1].sameline
    THEN <<node.content[1]>>
    ELSE <<>>

\* what one row pushes onto `content`, lines 139-161
alignedRow(row, rowSep, trailingComment) ==
    <<Text(row)>>
        \o (IF rowSep # <<>> THEN <<Text(rowSep)>> ELSE <<>>)
        \o (IF rowSep # <<>> /\ trailingComment # <<>> THEN <<Text(SPACE)>> ELSE <<>>)
        \o (IF trailingComment # <<>>
            THEN <<concat(<<Text(PERCENT), Text(trailingComment[1].text)>>)>>
            ELSE <<>>)
        \o (IF rowSep # <<>> \/ trailingComment # <<>> THEN <<hardline>> ELSE <<>>)

RECURSIVE alignedRowsFrom(_, _)
alignedRowsFrom(f, i) ==
    IF i > Len(f.rows) THEN <<>>
    ELSE alignedRow(f.rows[i], f.rowSeps[i], f.trailingComments[i]) \o alignedRowsFrom(f, i + 1)

printAlignedContent(node) ==
    LET f == formatAlignedContent(node.rows)
        all == alignedRowsFrom(f, 1)
        content == IF all # <<>> /\ all[Len(all)] = hardline THEN SubSeq(all, 1, Len(all) - 1) ELSE all
        lead == leadingComment(node)
    IN concat((IF lead # <<>> THEN <<Text(PERCENT \o lead[1].text), hardline>> ELSE <<>>) \o content)

(***************************************************************************)
(* The recursive printer.  The functions of the plugin that print children *)
(* call each other through prettier's `print` callback; printPath is that  *)
(* recursion: printPath(fn, seq, i, m) is the call of the function fn on   *)
(* the path of element i of the sequence seq (for "printArray": on seq     *)
(* itself), entered with options.inMathMode = m.  The operators named      *)
(* after the source's functions take the printed children as parameter.    *)
(***************************************************************************)
\* the result a for one element, followed by the results of the rest
Cons(a, rest) == Res(<<a.doc>> \o rest.doc, rest.m, a.calls \cup rest.calls)

\* the result r of a printing that follows the printing a, whose Doc is dropped
After(a, r) == Res(r.doc, r.m, a.calls \cup r.calls)

\* printArgument: c is the print of the content (an array in tree mode, the
\* mapped elements in flat mode)
printArgument(node, mode, c) ==
    IF mode = "tree"
    THEN Res(concat(<<Text(node.openMark), c.doc, Text(node.closeMark)>>), c.m, c.calls)
    ELSE Res(Array(<<Text(node.openMark)>> \o c.doc \o <<Text(node.closeMark)>>), c.m, c.calls)

\* printMacro that forgets the indent of a hanging macro
printMacroNoIndent(node, mode, args) ==
    IF mode = "tree"
    THEN Res(concat(flatBody(node, args.doc)), args.m, args.calls)
    ELSE Res(Array(flatBody(node, args.doc)), args.m, args.calls)

\* printMacro: args is the result of path.map over "args"
printMacro(node, mode, args) ==
    IF mode = "tree"
    THEN Res(IF node.renderInfo.hangingIndent
             THEN indent(concat(flatBody(node, args.doc)))
             ELSE concat(flatBody(node, args.doc)),
             args.m, args.calls)
    ELSE Res(Array(flatBody(node, args.doc)), args.m, args.calls)

\* case "environment", "mathenv", "verbatim": c is the result of
\* printEnvironmentContent, m the mode the case was entered with
printEnvironment(node, previousNode, renderInfo, m, c) ==
    LET env == formatEnvSurround(node)
        after == IF renderInfo.inMathMode # <<>> THEN m ELSE c.m
    IN IF node.type = "verbatim"
       THEN Res(concat(startToken(renderInfo, previousNode)
                        \o <<Text(env.start), Text(env.args), c.doc, Text(env.end)>>),
                after, c.calls)
       ELSE Res(concat(startToken(renderInfo, previousNode)
                        \o <<Text(env.start), Text(env.args),
                             indent(concat(bodyStartToken(node) \o <<c.doc>>)),
                             hardline, Text(env.end)>>),
                after, c.calls)

\* case "displaymath": c is the print of the content under inMathMode = true
printDisplayMath(node, previousNode, renderInfo, c) ==
    Res(concat(startToken(renderInfo, previousNode)
                \o <<Text(ESCAPE \o LBRACKET),
                     indent(concat(bodyStartTokenMath(node) \o <<c.doc>>)),
                     hardline, Text(ESCAPE \o RBRACKET)>>),
        FALSE, c.calls)

\* case "inlinemath" with content: c is its print under inMathMode = true
printInlineMath(node, c) ==
    Res(concat(<<Text(DOLLAR),
                 IF node.content[Len(node.content)].type = "comment"
                 THEN concat(<<c.doc, hardline>>)
                 ELSE c.doc,
                 Text(DOLLAR)>>),
        FALSE, c.calls)

\* printArray that makes a Fill of a preamble too
printArrayFill(m, breakOnAllLines, c) ==
    Res(fill(SpreadAll(IF m THEN joinWithSoftline(c.doc) ELSE c.doc)), c.m, c.calls)

\* the Array branch entered with options.inMathMode = m: c is path.map(printFlatVersion)
printArray(m, breakOnAllLines, c) ==
    Res(IF breakOnAllLines
        THEN concat(SpreadAll(IF m THEN joinWithSoftline(c.doc) ELSE c.doc))
        ELSE fill(SpreadAll(IF m THEN joinWithSoftline(c.doc) ELSE c.doc)),
        c.m, c.calls)

\* the switch of printLatexAst for the cases that print no child
printLeaf(node, previousNode, nextNode, renderInfo) ==
    CASE node.type = "comment" -> printComment(node, previousNode, renderInfo)
      [] node.type = "group" -> printGroup(node)
      [] node.type = "parbreak" -> concat(<<hardline, hardline>>)
      [] node.type = "string" -> Text(node.text)
      [] node.type = "plainstring" -> Text(node.text)
      [] node.type = "verb" ->
            concat(<<Text(ESCAPE), Text(node.env[1]), Text(node.escape), Text(node.text), Text(node.escape)>>)
      [] node.type = "whitespace" -> printWhitespace(previousNode, nextNode)
      [] OTHER -> Text(printRaw(node))

\* a printLatexAst call that returns r adds itself to the calls
Logged(node, previousNode, nextNode, m, r) ==
    Res(r.doc, r.m, r.calls \cup {Call(node, previousNode, nextNode, m, r.m, r.doc)})

\* a printLatexAst call on the array seq that maps to c and returns r adds itself
LoggedArray(seq, m, c, r) ==
    Res(r.doc, r.m, r.calls \cup {ArrayCall(seq, m, r.m, c.doc, r.doc)})

RECURSIVE printPath(_, _, _, _)
printPath(fn, seq, i, m) ==
    LET node == IF fn # "printArray" /\ i <= Len(seq) THEN seq[i] ELSE EMPTY_OBJECT
        previousNode == getPreviousNode(seq, i)
        nextNode == getNextNode(seq, i)
        renderInfo == getRenderInfo(node, previousNode, nextNode)
    IN CASE fn = "printArray" ->
                LET c == printPath("mapFlatVersion", seq, 1, m)
                IN LoggedArray(seq, m, c, printArray(m, FALSE, c))
         [] fn \in {"mapFlatVersion", "mapPrint", "mapArgs", "mapArgsFlat"} ->
                \* path.map: the elements in order, each entered with the mode
                \* the previous one left
                IF i > Len(seq) THEN Res(<<>>, m, {})
                ELSE LET a == printPath(CASE fn = "mapFlatVersion" -> "printFlatVersion"
                                          [] fn = "mapArgsFlat" -> "printArgumentFlat"
                                          [] OTHER -> "printLatexAst", seq, i, m)
                     IN Cons(a, IF a.m THEN printPath(fn, seq, i + 1, TRUE)
                                ELSE printPath(fn, seq, i + 1, FALSE))
         [] fn = "printArgumentFlat" ->
                printArgument(node, "flat", printPath("mapPrint", node.content, 1, m))
         [] fn \in {"printMacroTree", "printMacroFlat"} ->
                printMacro(node, IF fn = "printMacroTree" THEN "tree" ELSE "flat",
                           printPath(IF node.renderInfo.inParMode THEN "mapArgsFlat" ELSE "mapArgs",
                                     node.args, 1, m))
         [] fn = "printEnvironmentContent" ->
                IF renderInfo.alignContent THEN Res(printAlignedContent(node), m, {})
                ELSE IF node.type = "verbatim" THEN Res(Text(node.text), m, {})
                ELSE printPath("printArray", node.content, 1, m)
         [] fn = "printFlatVersion" ->
                \* A macro is printed flat first; unless it hangs, `print` then
                \* prints the node again.  prettier's `print` keeps the Doc of a
                \* value printed through path.call, so a tree-mode macro gets the
                \* Docs of the first printing of its arguments' contents (the mode
                \* stays as the first printing left it); an inParMode macro maps
                \* `print` over the contents again.
                IF node.type = "macro"
                THEN LET f == printPath("printMacroFlat", seq, i, m)
                     IN IF node.renderInfo.hangingIndent
                        THEN Res(indent(fill(SpreadAll(f.doc.parts))), f.m, f.calls)
                        ELSE IF node.renderInfo.inParMode
                             THEN After(f, IF f.m THEN printPath("printLatexAst", seq, i, TRUE)
                                           ELSE printPath("printLatexAst", seq, i, FALSE))
                             ELSE Logged(node, previousNode, nextNode, f.m,
                                         Res(concat(f.doc.parts), f.m, f.calls))
                ELSE printPath("printLatexAst", seq, i, m)
         [] fn = "printLatexAst" ->
                Logged(node, previousNode, nextNode, m,
                    CASE node.type = "argument" ->
                            printArgument(node, "tree", printPath("printArray", node.content, 1, m))
                      [] node.type \in {"environment", "mathenv", "verbatim"} ->
                            printEnvironment(node, previousNode, renderInfo, m,
                                printPath("printEnvironmentContent", seq, i,
                                          IF renderInfo.inMathMode # <<>>
                                          THEN renderInfo.inMathMode[1] ELSE m))
                      [] node.type = "displaymath" ->
                            printDisplayMath(node, previousNode, renderInfo,
                                             printPath("printArray", node.content, 1, TRUE))
                      [] node.type = "inlinemath" ->
                            IF Len(node.content) = 0 THEN Res(printEmptyInlineMath, m, {})
                            ELSE printInlineMath(node, printPath("printArray", node.content, 1, TRUE))
                      [] node.type = "macro" ->
                            IF renderInfo.inParMode /\ ~renderInfo.hangingIndent
                            THEN printPath("printMacroFlat", seq, i, m)
                            ELSE printPath("printMacroTree", seq, i, m)
                      [] OTHER -> Res(printLeaf(node, previousNode, nextNode, renderInfo), m, {}))

\* printLatexAst on element i of seq, and printFlatVersion on it
printLatexAst(seq, i, m) == printPath("printLatexAst", seq, i, m)
printFlatVersion(seq, i, m) == printPath("printFlatVersion", seq, i, m)

(***************************************************************************)
(* The TypeScript dispatcher (src/unnamed/part_000, lines 302-373).  The   *)
(* cases it hands to printRoot, printArgument, printComment,               *)
(* printEnvironment, printAlignedEnvironment, printDisplayMath,            *)
(* printInlineMath, printMacro and printVerbatimEnvironment call modules   *)
(* that are not part of src/: their Doc is left opaque.                    *)
(***************************************************************************)
Delegated(node) == [k |-> "delegated", s |-> <<node.type>>, parts |-> <<>>]

TsOwnTypes == {"group", "parbreak", "string", "verb", "whitespace"}
TsDelegatedTypes ==
    {"root", "argument", "comment", "environment", "mathenv", "displaymath", "inlinemath",
     "macro", "verbatim"}

printLatexAstTs(seq, i, m) ==
    LET node == seq[i]
        previousNode == getPreviousNode(seq, i)
        nextNode == getNextNode(seq, i)
        d == CASE node.type \in TsDelegatedTypes -> Delegated(node)
               [] node.type = "group" -> printGroupTs(node)
               [] node.type = "parbreak" -> concat(<<hardline, hardline>>)
               [] node.type = "string" -> Text(node.text)
               [] node.type = "plainstring" -> Text(node.text)
               [] node.type = "verb" ->
                    concat(<<Text(ESCAPE), Text(node.env[1]), Text(node.escape),
                             Text(node.text), Text(node.escape)>>)
               [] node.type = "whitespace" -> printWhitespaceTs(previousNode, nextNode)
               [] OTHER -> Text(printRaw(node))
    IN Res(d, m, {[Call(node, previousNode, nextNode, m, m, d)
                        EXCEPT !.warned = \/ node.type \notin (TsOwnTypes \cup TsDelegatedTypes \cup NonNodeTypes)
                                          \/ node.type = "root"]})

(***************************************************************************)
(* The inputs: trees the parser can produce.                               *)
(***************************************************************************)
RECURSIVE SeqsUpTo(_, _)
\* the sequences over S of length at most n
SeqsUpTo(S, n) ==
    IF n = 0 THEN {<<>>}
    ELSE LET shorter == SeqsUpTo(S, n - 1)
         IN shorter \cup {Append(q, x) : q \in {r \in shorter : Len(r) = n - 1}, x \in S}

\* the parser sets a comment's suffixParbreak when a paragraph break follows it
setSuffixParbreak(seq) ==
    [i \in 1..Len(seq) |->
        IF seq[i].type = "comment"
        THEN [seq[i] EXCEPT !.suffixParbreak = (getNextNode(seq, i).type = "parbreak")]
        ELSE seq[i]]

A == <<"a">>
StrA == String(A)
OwnLineComment == Comment(<<"c">>, FALSE, FALSE)
SameLineComment == Comment(<<"c">>, TRUE, FALSE)
SpacedComment == Comment(<<"c">>, TRUE, TRUE)
MathInfo(b) == [NoInfo EXCEPT !.inMathMode = <<b>>]
BraceArg(content) == Argument(LBRACE, content, RBRACE)
BracketArg(content) == Argument(LBRACKET, content, RBRACKET)
Unknown == [Node("footnotemark") EXCEPT !.text = <<"u">>]

\* the nodes a top-level sequence of up to MaxLen elements is built from
BasicNodes ==
    {StrA, Whitespace, Parbreak, OwnLineComment, SameLineComment,
     Environment("environment", <<"e">>, <<>>, <<>>, NoInfo),
     Environment("mathenv", <<"q">>, <<>>, <<StrA>>, MathInfo(TRUE)),
     Verbatim(<<"v">>, <<"t">>),
     Verb(<<"v", "e", "r", "b">>, <<"|">>, <<"t">>),
     DisplayMath(<<StrA>>)}

\* the nodes a nested content sequence of up to MaxBodyLen elements is built from
BodyNodes ==
    {StrA, Whitespace, Parbreak, OwnLineComment, SameLineComment, SpacedComment,
     InlineMath(<<StrA>>),
     Macro(<<"m">>, <<>>, <<BraceArg(<<StrA, StrA>>)>>, NoInfo),
     Environment("environment", <<"t">>, <<>>, <<StrA>>, MathInfo(FALSE))}

Bodies == {setSuffixParbreak(b) : b \in SeqsUpTo(BodyNodes, MaxBodyLen)}

Containers ==
    UNION {{Environment("environment", <<"e">>, <<>>, b, NoInfo),
            Environment("mathenv", <<"q">>, <<BracketArg(<<StrA>>)>>, b, MathInfo(TRUE)),
            DisplayMath(b), InlineMath(b), Group(b)} : b \in Bodies}

MacroInfos == {[NoInfo EXCEPT !.inParMode = p, !.hangingIndent = h] : p, h \in BOOLEAN}
MacroArgs ==
    {<<>>, <<BraceArg(<<>>)>>, <<BraceArg(<<StrA, Whitespace, StrA>>)>>,
     <<BracketArg(<<StrA>>), BraceArg(<<InlineMath(<<StrA>>), StrA>>)>>}
Macros ==
    {Macro(<<"m">>, e, args, info) :
        e \in {<<>>, << <<>> >>, << <<"@">> >>}, args \in MacroArgs, info \in MacroInfos}

\* macros annotated hangingIndent, and macros that hold one in an argument
HangingMacros ==
    {Macro(<<"h">>, e, args, [NoInfo EXCEPT !.hangingIndent = TRUE]) :
        e \in {<<>>, << <<"@">> >>},
        args \in {<<>>, <<BracketArg(<<StrA>>), BraceArg(<<StrA, Whitespace, StrA>>)>>}}
NestedMacros ==
    {Macro(<<"m">>, <<>>, <<BraceArg(<<h>>)>>, info) : h \in HangingMacros, info \in MacroInfos}

\* macros with an argument whose content ends with a comment
CommentArgMacros ==
    {Macro(<<"m">>, <<>>, <<BraceArg(<<StrA>> \o <<c>>)>>, info) :
        c \in {OwnLineComment, SameLineComment}, info \in MacroInfos}

Trees ==
    {setSuffixParbreak(t) : t \in SeqsUpTo(BasicNodes, MaxLen)}
        \cup {<<c>> : c \in CommentArgMacros}
        \cup {<<c>> : c \in Containers \cup Macros \cup NestedMacros \cup {Unknown}}
        \cup {<<StrA, c, StrA>> : c \in Macros \cup {Unknown, InlineMath(<<>>), Null, PlainString(A),
                                                 Root(<<StrA>>)}}

\* the rows parseAlignEnvironment can return for an aligned body
RECURSIVE Xs(_)
Xs(n) == IF n = 0 THEN <<>> ELSE <<"x">> \o Xs(n - 1)

Cells == {<<String(Xs(w))>> : w \in 1..MaxCellWidth}
ColSeps == {<<String(AMP)>>, <<String(AMP \o AMP)>>}
RowSepMacro == Macro(<<"\\">>, <<>>, <<>>, NoInfo)
RowEnds == {[rowSep |-> s, trailingComment |-> c] : s \in {<<>>, <<RowSepMacro>>}, c \in {<<>>, <<SameLineComment>>}}

RowCells ==
    {[cells |-> << <<>> >>, colSeps |-> <<>>]}
        \cup {[cells |-> <<c>>, colSeps |-> <<>>] : c \in Cells \cup {<<Whitespace, StrA, Whitespace>>}}
        \cup {[cells |-> <<c, d>>, colSeps |-> <<s>>] : c \in Cells, d \in {<<>>, <<String(Xs(1))>>}, s \in ColSeps}

\* a table: every row but the last ends with a row separator and no comment
Tables ==
    {[j \in 1..Len(t) |->
        IF j = Len(t) THEN Row(t[j].cells, t[j].colSeps, e.rowSep, e.trailingComment)
        ELSE Row(t[j].cells, t[j].colSeps, <<RowSepMacro>>, <<>>)] :
        t \in SeqsUpTo(RowCells, MaxRows), e \in RowEnds}

\* the body of spec.md section 8, `a & bb & c \\` / `dd & e & fff \\`, with the
\* whitespace around the separators in the cells
OneString(t) == <<String(t)>>
FirstCell(t) == <<String(t), Whitespace>>
LaterCell(t) == <<Whitespace, String(t), Whitespace>>
ExampleRows ==
    <<Row(<<FirstCell(<<"a">>), LaterCell(<<"b", "b">>), LaterCell(<<"c">>)>>,
          <<OneString(AMP), OneString(AMP)>>, <<RowSepMacro>>, <<>>),
      Row(<<FirstCell(<<"d", "d">>), LaterCell(<<"e">>), LaterCell(<<"f", "f", "f">>)>>,
          <<OneString(AMP), OneString(AMP)>>, <<RowSepMacro>>, <<>>)>>

RECURSIVE rowSource(_, _)
\* the nodes of a row in source order, from cell i
rowSource(r, i) ==
    IF i > Len(r.cells) THEN r.rowSep \o r.trailingComment
    ELSE r.cells[i] \o (IF i <= Len(r.colSeps) THEN r.colSeps[i] ELSE <<>>) \o rowSource(r, i + 1)

RECURSIVE tableSource(_)
tableSource(rs) == IF rs = <<>> THEN <<>> ELSE rowSource(Head(rs), 1) \o tableSource(Tail(rs))

\* an environment annotated alignContent whose body parses to the rows rs
AlignedEnvironment(lead, rs) ==
    [Environment("environment", <<"e">>, <<>>, lead \o tableSource(rs),
                 [NoInfo EXCEPT !.alignContent = TRUE]) EXCEPT !.rows = rs]

AlignedInputs ==
    {AlignedEnvironment(<<>>, rs) : rs \in Tables \cup {ExampleRows}}
        \cup {AlignedEnvironment(<<SameLineComment>>, rs) :
                rs \in {t \in Tables : Len(t) <= 1} \cup {ExampleRows}}

(***************************************************************************)
(* The print pass as a state machine: the root call, then one step per     *)
(* top-level element in source order, then the root call's return.         *)
(***************************************************************************)
DOCUMENTCLASS == <<"d", "o", "c", "u", "m", "e", "n", "t", "c", "l", "a", "s", "s">>

\* hasPreambleCode (libs/macro-utils): the heuristic that finds a preamble
hasPreambleCode(nodes) ==
    \E i \in 1..Len(nodes) : nodes[i].type = "macro" /\ nodes[i].text = DOCUMENTCLASS

\* top-level sequences that hold a \documentclass, and the math of the example
\* of joinWithSoftline
DocumentClass == Macro(DOCUMENTCLASS, <<>>, <<BraceArg(<<StrA>>)>>, NoInfo)
PreambleNodes ==
    {Macro(<<"u">>, <<>>, <<BraceArg(<<StrA>>)>>, NoInfo), Whitespace, Parbreak, OwnLineComment, StrA,
     Environment("environment", <<"e">>, <<>>, <<>>, NoInfo)}
Preambles == {setSuffixParbreak(<<DocumentClass>> \o t) : t \in SeqsUpTo(PreambleNodes, MaxLen - 1)}
ExampleMath == DisplayMath(<<StrA, Whitespace, StrA, StrA>>)

\* the root of an earlier print pass that used the same options
OldRoot == <<String(<<"o">>)>>

NoFormat == [rows |-> <<>>, rowSeps |-> <<>>, trailingComments |-> <<>>, colWidths |-> <<>>]

Init ==
    /\ impl = "none"
    /\ ast \in Trees \cup Preambles \cup {<<ExampleMath>>}
    /\ options \in {[inMathMode |-> FALSE, referenceMap |-> r] : r \in {NoMap, ReferenceMap(OldRoot)}}
    /\ pc = "ready"
    /\ mode0 = FALSE
    /\ docs = <<>>
    /\ doc = NoDoc
    /\ calls = {}
    /\ arrays = {}
    /\ warnings = 0
    /\ rows = <<>>
    /\ formatted = NoFormat

\* printLatexAst on the root array, up to the Array branch: the ReferenceMap is made
PrintRoot ==
    /\ pc = "ready"
    /\ impl' = "js"
    /\ options' = [options EXCEPT !.referenceMap = ReferenceMap(ast)]
    /\ mode0' = options.inMathMode
    /\ pc' = "elements"
    /\ UNCHANGED <<ast, docs, doc, calls, arrays, warnings, rows, formatted>>

\* path.map(printFlatVersion) on a null element: node._renderInfo (line 322, and
\* line 281 of print) is read before node == null is tested, which throws
PrintNull ==
    /\ pc = "elements"
    /\ impl = "js"
    /\ Len(docs) < Len(ast)
    /\ ast[Len(docs) + 1] = Null
    /\ pc' = "threw"
    /\ UNCHANGED <<impl, ast, options, mode0, docs, doc, calls, arrays, warnings, rows, formatted>>

\* path.map(printFlatVersion): the next element
PrintElement ==
    /\ pc = "elements"
    /\ impl = "js"
    /\ Len(docs) < Len(ast)
    /\ ast[Len(docs) + 1] # Null
    /\ LET r == printFlatVersion(ast, Len(docs) + 1, options.inMathMode)
       IN /\ docs' = Append(docs, r.doc)
          /\ options' = [options EXCEPT !.inMathMode = r.m]
          /\ calls' = calls \cup NodeCalls(r.calls)
          /\ arrays' = arrays \cup ArrayCalls(r.calls)
          /\ warnings' = warnings + Cardinality({c \in r.calls : c.warned})
    /\ UNCHANGED <<impl, ast, pc, mode0, doc, rows, formatted>>

\* the Array branch returns: joinWithSoftline in math mode, then fill or concat
ReturnRoot ==
    /\ pc = "elements"
    /\ impl = "js"
    /\ Len(docs) = Len(ast)
    /\ doc' = printArray(mode0, hasPreambleCode(ast), Res(docs, options.inMathMode, {})).doc
    /\ arrays' = arrays \cup {ArrayCall(ast, mode0, options.inMathMode, docs, doc')}
    /\ pc' = "done"
    /\ UNCHANGED <<impl, ast, options, mode0, docs, calls, warnings, rows, formatted>>

\* the TypeScript dispatcher on the root node: case "root"
PrintRootTs ==
    /\ pc = "ready"
    /\ impl' = "ts"
    /\ warnings' = warnings + (IF options.referenceMap # NoMap THEN 1 ELSE 0)
    /\ options' = [options EXCEPT !.referenceMap = ReferenceMap(ast)]
    /\ mode0' = options.inMathMode
    /\ pc' = "elements"
    /\ UNCHANGED <<ast, docs, doc, calls, arrays, rows, formatted>>

\* the dispatcher on a null element: getNodeInfo(node, options), which is not
\* part of src/, is called before node == null is tested; it throws or it
\* returns, and then null is returned as is
PrintNullTs ==
    /\ pc = "elements"
    /\ impl = "ts"
    /\ Len(docs) < Len(ast)
    /\ ast[Len(docs) + 1] = Null
    /\ \/ pc' = "threw" /\ docs' = docs
       \/ pc' = pc /\ docs' = Append(docs, NoDoc)
    /\ UNCHANGED <<impl, ast, options, mode0, doc, calls, arrays, warnings, rows, formatted>>

\* printRoot prints the next element of the root's content
PrintElementTs ==
    /\ pc = "elements"
    /\ impl = "ts"
    /\ Len(docs) < Len(ast)
    /\ ast[Len(docs) + 1] # Null
    /\ LET r == printLatexAstTs(ast, Len(docs) + 1, options.inMathMode)
       IN /\ docs' = Append(docs, r.doc)
          /\ calls' = calls \cup r.calls
          /\ warnings' = warnings + Cardinality({c \in r.calls : c.warned})
    /\ options' = IF ast[Len(docs) + 1].type = "root"
                  THEN [options EXCEPT !.referenceMap = ReferenceMap(ast[Len(docs) + 1])]
                  ELSE options
    /\ UNCHANGED <<impl, ast, pc, mode0, doc, arrays, rows, formatted>>

\* printRoot returns: how it composes the element docs is not part of src/
ReturnRootTs ==
    /\ pc = "elements"
    /\ impl = "ts"
    /\ Len(docs) = Len(ast)
    /\ doc' = [k |-> "delegated", s |-> <<"root">>, parts |-> docs]
    /\ pc' = "done"
    /\ UNCHANGED <<impl, ast, options, mode0, docs, calls, arrays, warnings, rows, formatted>>

Next ==
    \/ PrintRoot
    \/ PrintNull
    \/ PrintElement
    \/ ReturnRoot
    \/ PrintRootTs
    \/ PrintNullTs
    \/ PrintElementTs
    \/ ReturnRootTs

Spec == Init /\ [][Next]_vars

(***************************************************************************)
(* Aligned environments: formatAlignedContent on the rows of the body,     *)
(* then the print of the environment.                                      *)
(***************************************************************************)
InitAligned ==
    /\ impl = "js"
    /\ ast \in {<<e>> : e \in AlignedInputs}
    /\ options = [inMathMode |-> FALSE, referenceMap |-> ReferenceMap(ast)]
    /\ pc = "ready"
    /\ mode0 = FALSE
    /\ docs = <<>>
    /\ doc = NoDoc
    /\ calls = {}
    /\ arrays = {}
    /\ warnings = 0
    /\ rows = ast[1].rows
    /\ formatted = NoFormat

FormatAligned ==
    /\ pc = "ready"
    /\ formatted' = [rows |-> formatAlignedContent(rows).rows,
                     rowSeps |-> formatAlignedContent(rows).rowSeps,
                     trailingComments |-> formatAlignedContent(rows).trailingComments,
                     colWidths |-> colWidths(rows)]
    /\ pc' = "formatted"
    /\ UNCHANGED <<impl, ast, options, mode0, docs, doc, calls, arrays, warnings, rows>>

PrintAligned ==
    /\ pc = "formatted"
    /\ LET r == printLatexAst(ast, 1, options.inMathMode)
       IN /\ doc' = r.doc
          /\ docs' = <<r.doc>>
          /\ calls' = NodeCalls(r.calls)
          /\ arrays' = ArrayCalls(r.calls)
          /\ options' = [options EXCEPT !.inMathMode = r.m]
    /\ pc' = "done"
    /\ UNCHANGED <<impl, ast, mode0, warnings, rows, formatted>>

NextAligned ==
    \/ FormatAligned
    \/ PrintAligned

SpecAligned == InitAligned /\ [][NextAligned]_vars

(***************************************************************************)
(* The layout engine (prettier's printDocToString) on the parts of the     *)
(* root Doc: the parts of a Concat are laid out in break mode, where a     *)
(* line is a line break; a line of a Fill is laid out as a space whenever  *)
(* the content that follows it fits on the line.                           *)
(***************************************************************************)
layoutLine(root) == IF root.k = "concat" THEN NEWLINE ELSE SPACE

(***************************************************************************)
(* Properties of the print pass.                                           *)
(***************************************************************************)
\* the calls of the plugin's printLatexAst made so far on nodes of the given types
JsCalls(types) == {c \in calls : impl = "js" /\ c.node.type \in types}

RECURSIVE HasBreak(_)
\* whether a Doc holds a line, softline or hardline
HasBreak(d) ==
    \/ d.k \in {"line", "softline", "hardline"}
    \/ \E p \in 1..Len(d.parts) : HasBreak(d.parts[p])

RECURSIVE DocText(_), DocsText(_)
\* the text of a Doc laid out flat: a line is a space, a hardline a newline
DocText(d) ==
    CASE d.k = "text" -> d.s
      [] d.k = "line" -> SPACE
      [] d.k = "softline" -> <<>>
      [] d.k = "hardline" -> NEWLINE
      [] OTHER -> DocsText(d.parts)

DocsText(ds) == IF ds = <<>> THEN <<>> ELSE DocText(Head(ds)) \o DocsText(Tail(ds))

RECURSIVE mergeTexts(_)
\* a sequence of Docs with adjacent texts joined into one text
mergeTexts(ds) ==
    IF Len(ds) <= 1 THEN ds
    ELSE IF ds[1].k = "text" /\ ds[2].k = "text"
         THEN mergeTexts(<<Text(ds[1].s \o ds[2].s)>> \o SubSeq(ds, 3, Len(ds)))
         ELSE <<ds[1]>> \o mergeTexts(Tail(ds))

hasLeadingBreak(d) == Len(d.parts) > 0 /\ d.parts[1] = hardline
hasTrailingBreak(d) == Len(d.parts) > 0 /\ d.parts[Len(d.parts)] = hardline
hasBlankLine(t) == \E p \in 1..(Len(t) - 1) : t[p] = "\n" /\ t[p + 1] = "\n"

\* C1: every printLatexAst call of a print pass returns with inMathMode equal
\* to its value when the call was entered, whatever the node's type and depth.
C1_ModeRestored == \A c \in calls : c.out = c.in

\* C2: a same-line comment never has a leading forced break; a comment on its
\* own line has one exactly when it is not the first sibling and its previous
\* sibling is not a comment; either kind has a trailing forced break exactly
\* when it is not the last sibling and no parbreak follows it; between the
\* breaks stands the one text "%..."; and an environment whose sole content
\* is a comment prints without a blank line.
C2_CommentBreaks ==
    /\ \A c \in JsCalls({"comment"}) :
        LET lead == hasLeadingBreak(c.doc)
            trail == hasTrailingBreak(c.doc)
        IN /\ c.node.sameline => ~lead
           /\ ~c.node.sameline =>
                (lead <=> (c.previousNode # EMPTY_OBJECT /\ c.previousNode.type # "comment"))
           /\ trail <=> (c.nextNode # EMPTY_OBJECT /\ c.nextNode.type # "parbreak")
           /\ c.doc.k = "concat"
           /\ c.doc.parts = (IF lead THEN <<hardline>> ELSE <<>>)
                                \o <<Text(PERCENT \o c.node.text)>>
                                \o (IF trail THEN <<hardline>> ELSE <<>>)
    /\ \A e \in JsCalls({"environment", "mathenv"}) :
        (Len(e.node.content) = 1 /\ e.node.content[1].type = "comment")
            => ~hasBlankLine(DocText(e.doc))

\* a comment on its own line stacked under another comment, last in its container
C2_Witness ==
    \E c \in JsCalls({"comment"}) :
        ~c.node.sameline /\ c.previousNode.type = "comment" /\ c.nextNode = EMPTY_OBJECT

\* C3 as the specification states it: a whitespace prints as nothing when its
\* next sibling is an Environment, MathEnv or DisplayMath, else as a forced
\* break when its previous sibling is one, and as a line in every other case.
C3_Original ==
    \A c \in calls :
        c.node.type = "whitespace" =>
            c.doc = IF c.nextNode.type \in {"environment", "mathenv", "displaymath"}
                    THEN Text(<<>>)
                    ELSE IF c.previousNode.type \in {"environment", "mathenv", "displaymath"}
                         THEN hardline
                         ELSE line

\* C3: in the plugin a whitespace prints as nothing when its next sibling is
\* an Environment, MathEnv, Verbatim or DisplayMath, else as a forced break
\* when its previous sibling is one of these, else as a line; the TypeScript
\* dispatcher prints every whitespace as a line.
C3_Whitespace ==
    \A c \in calls :
        c.node.type = "whitespace" =>
            c.doc = IF impl = "ts" THEN line
                    ELSE IF c.nextNode.type \in {"environment", "mathenv", "verbatim", "displaymath"}
                         THEN Text(<<>>)
                         ELSE IF c.previousNode.type \in {"environment", "mathenv", "verbatim", "displaymath"}
                              THEN hardline
                              ELSE line

\* the plugin printed a whitespace in front of a verbatim environment as nothing
C3_Witness ==
    \E c \in JsCalls({"whitespace"}) : c.nextNode.type = "verbatim" /\ c.doc = Text(<<>>)

\* C4: a non-aligned Environment or MathEnv prints as a concat of: a forced
\* break unless the node is the first sibling or follows a parbreak or a
\* comment; \begin{name}; the raw args; an indented block of the body, which
\* starts with a forced break unless the body is empty or starts with a
\* same-line comment (one space instead when that comment has leading
\* whitespace); a forced break; \end{name}.
C4_EnvironmentLayout ==
    \A c \in JsCalls({"environment", "mathenv"}) :
        ~c.node.renderInfo.alignContent =>
            LET name == c.node.env[1]
                body == c.node.content
                lead == IF c.previousNode = EMPTY_OBJECT
                            \/ c.previousNode.type \in {"parbreak", "comment"}
                        THEN <<>> ELSE <<hardline>>
                open == IF body = <<>> THEN <<>>
                        ELSE IF body[1].type = "comment" /\ body[1].sameline
                             THEN IF body[1].leadingWhitespace THEN <<Text(SPACE)>> ELSE <<>>
                             ELSE <<hardline>>
                parts == c.doc.parts
                n == Len(parts)
            IN /\ c.doc.k = "concat"
               /\ n = Len(lead) + 5
               /\ SubSeq(parts, 1, Len(lead)) = lead
               /\ parts[n - 4] = Text(ESCAPE \o BEGIN \o name \o RBRACE)
               /\ parts[n - 3] = Text(printRawSeq(c.node.args))
               /\ parts[n - 2].k = "indent"
               /\ Len(parts[n - 2].parts) = 1
               /\ parts[n - 2].parts[1].k = "concat"
               /\ Len(parts[n - 2].parts[1].parts) = Len(open) + 1
               /\ SubSeq(parts[n - 2].parts[1].parts, 1, Len(open)) = open
               /\ parts[n - 2].parts[1].parts[Len(open) + 1].k = "fill"
               /\ parts[n - 1] = hardline
               /\ parts[n] = Text(ESCAPE \o END \o name \o RBRACE)

\* an environment that follows a sibling and whose body starts with a same-line
\* comment with leading whitespace, and one inside a container
C4_Witness ==
    /\ pc = "done"
    /\ \E c \in JsCalls({"environment", "mathenv"}) :
        \/ c.node.content # <<>> /\ c.node.content[1] = SpacedComment
        \/ c.previousNode.type = "string"

\* C5: an InlineMath with empty content prints as exactly the texts "$", " ",
\* "$" (laid out "$ $"), and its Doc holds no line, softline or hardline.
C5_EmptyInlineMath ==
    \A c \in JsCalls({"inlinemath"}) :
        c.node.content = <<>> =>
            /\ c.doc.k = "concat"
            /\ c.doc.parts = <<Text(DOLLAR), Text(SPACE), Text(DOLLAR)>>
            /\ DocText(c.doc) = <<"$", " ", "$">>
            /\ ~HasBreak(c.doc)

\* the plugin printed an empty inline math between two strings
C5_Witness ==
    \E c \in JsCalls({"inlinemath"}) :
        c.node.content = <<>> /\ c.previousNode.type = "string" /\ c.nextNode.type = "string"

(***************************************************************************)
(* Properties of aligned environments.                                     *)
(***************************************************************************)
\* the columns of a row string where a separator (a run of "&") starts and ends
sepStarts(row) == {p \in 1..Len(row) : row[p] = "&" /\ (p = 1 \/ row[p - 1] # "&")}
sepEnds(row) == {p \in 1..Len(row) : row[p] = "&" /\ (p = Len(row) \/ row[p + 1] # "&")}

\* the i-th smallest element of a set of columns
nth(cols, i) == CHOOSE p \in cols : Cardinality({q \in cols : q < p}) = i - 1

\* the number of separators in row j of what formatAlignedContent returned
numSeps(j) == Cardinality(sepStarts(formatted.rows[j]))

\* C6 as the specification states it: in the rows formatAlignedContent returns,
\* the separator at column index i starts at the same character column in
\* every row that has one.
C6_Original ==
    \A j, k \in 1..Len(formatted.rows) :
        \A i \in 1..numSeps(j) :
            i <= numSeps(k) =>
                nth(sepStarts(formatted.rows[j]), i) = nth(sepStarts(formatted.rows[k]), i)

\* C6: in the rows formatAlignedContent returns, the separator at column index
\* i ends at the same character column in every row that has one, so that
\* separators of equal length at index i also start at the same column; every
\* row keeps the separators of its source.
C6_SeparatorsAligned ==
    /\ \A j, k \in 1..Len(formatted.rows) :
        \A i \in 1..numSeps(j) :
            i <= numSeps(k) =>
                LET a == formatted.rows[j]
                    b == formatted.rows[k]
                IN /\ nth(sepEnds(a), i) = nth(sepEnds(b), i)
                   /\ (nth(sepEnds(a), i) - nth(sepStarts(a), i)
                            = nth(sepEnds(b), i) - nth(sepStarts(b), i))
                        => nth(sepStarts(a), i) = nth(sepStarts(b), i)
    /\ pc # "ready" =>
        \A j \in 1..Len(rows) :
            /\ numSeps(j) = Len(rows[j].colSeps)
            /\ \A i \in 1..Len(rows[j].colSeps) :
                nth(sepEnds(formatted.rows[j]), i) - nth(sepStarts(formatted.rows[j]), i) + 1
                    = Len(printRawSeq(rows[j].colSeps[i]))

\* two formatted rows whose first separators have different lengths, the
\* second row ragged or with a narrower first cell
C6_Witness ==
    /\ pc = "formatted"
    /\ Len(rows) = 2
    /\ rows[1].colSeps = <<OneString(AMP \o AMP)>>
    /\ rows[2].colSeps = <<OneString(AMP)>>
    /\ Len(printRawSeq(trim(rows[1].cells[1]))) > Len(printRawSeq(trim(rows[2].cells[1])))

RECURSIVE textBefore(_, _)
\* the text the parts of a concat put on the line in front of part p
textBefore(parts, p) ==
    IF p = 0 \/ parts[p].k # "text" THEN <<>>
    ELSE textBefore(parts, p - 1) \o parts[p].s

\* the parts of the printed body that are trailing comments
commentParts(d) ==
    {p \in 1..Len(d.parts) : d.parts[p].k = "concat" /\ d.parts[p].parts[1] = Text(PERCENT)}

\* the Doc of the body of the printed aligned environment
alignedBody == doc.parts[Len(doc.parts) - 2].parts[1]

\* C7: in the printed body of an aligned environment exactly one space stands
\* between the text in front of a trailing comment (the padded row, or its
\* row separator) and the "%", with or without a row separator.
C7_OneSpaceBeforeComment ==
    pc = "done" =>
        LET body == alignedBody.parts[Len(alignedBody.parts)]
        IN \A p \in commentParts(body) :
            LET t == textBefore(body.parts, p - 1)
            IN t # <<>> =>
                /\ Len(t) >= 2
                /\ t[Len(t)] = " "
                /\ t[Len(t) - 1] # " "

\* C8 as the specification states it: the column widths of the body
\* `a & bb & c \\` / `dd & e & fff \\` are 2, 2, 3.
C8_Original == (pc # "ready" /\ rows = ExampleRows) => formatted.colWidths = <<2, 2, 3>>

\* C8: the column widths formatAlignedContent computes for the body
\* `a & bb & c \\` / `dd & e & fff \\` are 3, 3, 3: each is the widest
\* cell text plus separator text of its column.
C8_ExampleWidths == (pc # "ready" /\ rows = ExampleRows) => formatted.colWidths = <<3, 3, 3>>

\* formatAlignedContent has run on the rows of the example
C8_Witness ==
    /\ pc = "formatted"
    /\ rows = ExampleRows
    /\ formatted.rows = <<<<"a", " ", " ", "&", " ", "b", "b", " ", "&", " ", "c", " ", " ", " ">>,
                          <<"d", "d", " ", "&", " ", "e", " ", " ", "&", " ", "f", "f", "f", " ">>>>

(***************************************************************************)
(* Properties of groups and macros.                                        *)
(***************************************************************************)
\* the raw tokens of a sequence of nodes, each newline token made a hardline
tokensWithBreaks(nodes) ==
    [t \in 1..Len(printRawSeqTokens(nodes)) |->
        IF printRawSeqTokens(nodes)[t] = NEWLINE THEN hardline
        ELSE Text(printRawSeqTokens(nodes)[t])]

\* C9: a Group prints as "{", the raw tokens of its content in source order
\* with every newline token replaced by a forced break and every other
\* token unchanged, and "}" (adjacent texts taken together).
C9_GroupTokens ==
    \A c \in calls :
        c.node.type = "group" =>
            /\ c.doc.k = "concat"
            /\ mergeTexts(c.doc.parts)
                = mergeTexts(<<Text(LBRACE)>> \o tokensWithBreaks(c.node.content) \o <<Text(RBRACE)>>)

\* the escape token of a macro: the override when one is set, "\" otherwise
escapeOf(node) == IF node.escapeToken # <<>> THEN node.escapeToken[1] ELSE ESCAPE

RECURSIVE rawArgs(_)
\* the arguments in order, each its open mark, raw content and close mark
rawArgs(args) ==
    IF args = <<>> THEN <<>>
    ELSE Head(args).openMark \o printRawSeq(Head(args).content) \o Head(args).closeMark
            \o rawArgs(Tail(args))

\* a text without its line breaks: a comment's break is printed where the
\* printer puts it, not where the raw print does
notNewline(ch) == ch # "\n"
noBreaks(t) == SelectSeq(t, notNewline)

\* the parts of the Doc of a macro, inside the indent of a hanging one
macroParts(d) ==
    IF d.k = "indent" THEN d.parts[1].parts ELSE d.parts

\* a macro's Doc: the escape token, the name, then the arguments in order
MacroShape(node, d) ==
    /\ d.k \in {"concat", "array", "indent"}
    /\ Len(macroParts(d)) >= 2
    /\ macroParts(d)[1] = Text(escapeOf(node))
    /\ macroParts(d)[2] = Text(node.text)
    /\ noBreaks(DocsText(SubSeq(macroParts(d), 3, Len(macroParts(d))))) = noBreaks(rawArgs(node.args))
    /\ node.args = <<>> => Len(macroParts(d)) = 2

\* C10: a Macro prints as its escape token ("\" without an override, the
\* override otherwise, the empty string included), its name, and its
\* Arguments in order; without arguments as exactly escape token and name;
\* and the Doc of a following sibling stays a Doc of its own.
C10_MacroShape ==
    /\ \A c \in JsCalls({"macro"}) : MacroShape(c.node, c.doc)
    /\ impl = "js" =>
        \A i \in 1..Len(docs) :
            ast[i].type = "macro" =>
                /\ MacroShape(ast[i], docs[i])
                /\ (i < Len(docs) /\ ast[i + 1].type = "string") => docs[i + 1] = Text(ast[i + 1].text)
    /\ (impl = "js" /\ pc = "done") =>
        \A i \in 1..Len(ast) :
            (ast[i].type = "macro" /\ i < Len(ast) /\ ast[i + 1].type = "string" /\ i + 1 = Len(ast))
                => doc.parts[Len(doc.parts)] = Text(ast[i + 1].text)

\* a macro with the empty string as escape token and two arguments was printed
\* in front of a string, and the pass is done
C10_Witness ==
    /\ impl = "js"
    /\ pc = "done"
    /\ Len(ast) = 3
    /\ ast[2].type = "macro"
    /\ ast[2].escapeToken = << <<>> >>
    /\ Len(ast[2].args) = 2
    /\ macroParts(docs[2])[1] = Text(<<>>)

(***************************************************************************)
(* Properties of hanging macros, bare sequences and the preamble.          *)
(***************************************************************************)
\* one indented block that holds the macro's escape token, name and arguments
HangingShape(node, d) ==
    /\ d.k = "indent"
    /\ Len(d.parts) = 1
    /\ d.parts[1].k \in {"concat", "fill"}
    /\ Len(d.parts[1].parts) >= 2
    /\ d.parts[1].parts[1] = Text(escapeOf(node))
    /\ d.parts[1].parts[2] = Text(node.text)
    /\ noBreaks(DocsText(SubSeq(d.parts[1].parts, 3, Len(d.parts[1].parts)))) = noBreaks(rawArgs(node.args))

\* C11: a Macro annotated hangingIndent prints as one indented block that
\* holds its escape token, its name and its arguments in order, when
\* printLatexAst prints it as a single node and when it is an element of a
\* bare sequence (here the top-level sequence).
C11_HangingIndent ==
    /\ \A c \in JsCalls({"macro"}) :
        c.node.renderInfo.hangingIndent => HangingShape(c.node, c.doc)
    /\ impl = "js" =>
        \A i \in 1..Len(docs) :
            (ast[i].type = "macro" /\ ast[i].renderInfo.hangingIndent)
                => HangingShape(ast[i], docs[i])

\* a hanging macro with two arguments was printed as a single node inside an
\* argument, and one was printed as an element of the top-level sequence
C11_Witness ==
    /\ \E c \in JsCalls({"macro"}) :
        c.node.renderInfo.hangingIndent /\ Len(c.node.args) = 2 /\ c.doc.parts[1].k = "concat"
    /\ ast[1].args # <<>>
    /\ ast[1].args[1].content[1].renderInfo.hangingIndent

RECURSIVE softlineJoined(_, _)
\* the docs e from index i on, a softline put in front of each doc that is not
\* a line and does not follow a line
softlineJoined(e, i) ==
    IF i > Len(e) THEN <<>>
    ELSE (IF i > 1 /\ e[i].k # "line" /\ e[i - 1].k # "line" THEN <<softline, e[i]>> ELSE <<e[i]>>)
            \o softlineJoined(e, i + 1)

\* the docs a sequence prints: its elements' docs in order (the pieces of a
\* flat-printed macro one by one), joined with softlines in math mode
sequenceDocs(a) == SpreadAll(IF a.in THEN softlineJoined(a.elems, 1) ELSE a.elems)

\* whether an array call is the call on a root sequence identified as a preamble
isPreambleRoot(a) == a.node.content = ast /\ hasPreambleCode(ast)

\* C12 as the specification states it: every bare sequence prints as a Fill of
\* its elements' docs in source order, joined with softlines in math mode.
C12_Original ==
    \A a \in arrays : a.doc.k = "fill" /\ a.doc.parts = sequenceDocs(a)

\* C12: a bare sequence prints as a Fill of its elements' docs in source
\* order; in math mode exactly one softline is put between two adjacent docs
\* neither of which is a line, and none next to a line; a root sequence
\* identified as a preamble prints as a Concat of the same docs instead.
C12_BareSequence ==
    \A a \in arrays :
        /\ a.doc.k = IF isPreambleRoot(a) THEN "concat" ELSE "fill"
        /\ a.doc.parts = sequenceDocs(a)
        /\ Len(a.elems) = Len(a.node.content)

\* the sequence [a, whitespace, a, a] was printed in math mode as
\* [a, line, a, softline, a], and the root sequence in text mode as a Fill
C12_Witness ==
    /\ \E a \in arrays :
        /\ a.in
        /\ a.node.content = <<StrA, Whitespace, StrA, StrA>>
        /\ a.doc = fill(<<Text(A), line, Text(A), softline, Text(A)>>)
    /\ \E a \in arrays : ~a.in /\ a.node.content = ast /\ a.doc = fill(a.elems)

\* the text the Doc of top-level element k is laid out as in the root Doc
elemText(k) == IF docs[k].k \in {"line", "softline"} THEN layoutLine(doc) ELSE DocText(docs[k])

RECURSIVE textBetween(_, _)
\* the text of the top-level elements after element i and before element j
textBetween(i, j) == IF i + 1 >= j THEN <<>> ELSE elemText(i + 1) \o textBetween(i + 1, j)

hasNewline(t) == \E p \in 1..Len(t) : t[p] = "\n"
\* a text that ends, or starts, with a line break (spaces aside)
endsWithBreak(t) == \E p \in 1..Len(t) : t[p] = "\n" /\ \A q \in (p + 1)..Len(t) : t[q] = " "
startsWithBreak(t) == \E p \in 1..Len(t) : t[p] = "\n" /\ \A q \in 1..(p - 1) : t[q] = " "

\* the join of elements i and j is laid out with a line break
joinBreaks(i, j) ==
    \/ hasNewline(textBetween(i, j))
    \/ endsWithBreak(elemText(i))
    \/ startsWithBreak(elemText(j))

\* the pairs of top-level elements that follow each other, whitespace aside
joins ==
    {<<i, j>> \in (1..Len(ast)) \X (1..Len(ast)) :
        /\ i < j
        /\ ast[i].type # "whitespace"
        /\ ast[j].type # "whitespace"
        /\ \A k \in (i + 1)..(j - 1) : ast[k].type = "whitespace"}

unknownAndStringPrinted ==
    \A i \in 1..Len(docs) :
        /\ ast[i].type \notin KnownTypes \cup NonNodeTypes =>
                /\ docs[i] = Text(printRaw(ast[i]))
                /\ \E c \in calls : c.node = ast[i] /\ c.warned
                /\ warnings >= 1
        /\ ast[i].type = "plainstring" => docs[i] = Text(ast[i].text)

\* C14: print never fails on any node value: an unknown type gives the raw
\* print and a warning, null and a plain string are returned as is, no
\* exception is thrown and the rest of the document is printed.
C14_NeverFails ==
    impl = "js" =>
        /\ pc # "threw"
        /\ unknownAndStringPrinted
        /\ pc = "done" => Len(docs) = Len(ast)

\* the part of C14 that holds: unknown types and plain strings, with the rest
\* of the document printed around them
C14_UnknownAndString ==
    (impl = "js" /\ \A i \in 1..Len(ast) : ast[i] # Null) =>
        /\ pc # "threw"
        /\ unknownAndStringPrinted
        /\ pc = "done" => Len(docs) = Len(ast)


\* print is about to handle a root while options hold a map: the root of the
\* pass, or a node of type "root" among the elements
atRoot == pc = "ready" /\ options.referenceMap # NoMap
atNestedRoot ==
    /\ pc = "elements"
    /\ Len(docs) < Len(ast)
    /\ ast[Len(docs) + 1].type = "root"
    /\ options.referenceMap # NoMap

\* the step warns and leaves in the options the map made from `root`
warnsAndReplaces(root) ==
    /\ warnings' > warnings
    /\ options'.referenceMap = ReferenceMap(root)
    /\ pc' # "threw"

\* C15: whenever print reaches a root while the options already hold a
\* ReferenceMap, a warning is surfaced, the held map is replaced by one made
\* from that root, and printing goes on.
C15_RootWarns ==
    [][/\ atRoot => warnsAndReplaces(ast)
       /\ atNestedRoot => warnsAndReplaces(ast[Len(docs) + 1])]_vars

\* the part of C15 that holds: the same, of the steps of the TypeScript
\* dispatcher
C15_Dispatcher ==
    [][impl' = "ts" =>
        /\ atRoot => warnsAndReplaces(ast)
        /\ atNestedRoot => warnsAndReplaces(ast[Len(docs) + 1])]_vars

\* what the plugin does instead: the root of the pass replaces the map without
\* a warning, a nested root is warned about as an unknown type and the map stays
C15_Plugin ==
    [][impl' = "js" =>
        /\ atRoot => warnings' = warnings /\ options'.referenceMap = ReferenceMap(ast)
        /\ atNestedRoot => warnings' = warnings + 1 /\ options' = options]_vars


RECURSIVE atoms(_), atomsOf(_)
\* the texts and lines of a Doc, in output order
atoms(d) == IF d.k \in {"text", "line", "softline", "hardline"} THEN <<d>> ELSE atomsOf(d.parts)
atomsOf(ds) == IF ds = <<>> THEN <<>> ELSE atoms(Head(ds)) \o atomsOf(Tail(ds))

\* a comment's text that holds no line break of its own (the raw print of a
\* comment in a group does)
isCommentText(d) ==
    d.k = "text" /\ d.s # <<>> /\ d.s[1] = "%" /\ \A i \in 1..Len(d.s) : d.s[i] # "\n"
isPrintedText(d) == d.k = "text" /\ d.s # <<>>

\* in the atoms a, a forced break lies between every comment text and the
\* text that follows it
commentsClosed(a) ==
    \A p \in 1..Len(a) : isCommentText(a[p]) =>
        \A q \in (p + 1)..Len(a) : isPrintedText(a[q]) =>
            \E r \in (p + 1)..(q - 1) : a[r].k = "hardline"

\* C16: in the printed Doc, whenever a comment's text is followed in output
\* order by further text (a later sibling, or the closing delimiter of the
\* enclosing node), a forced break lies between the two.
C16_CommentNotAbsorbing ==
    (impl = "js" /\ pc = "done") => commentsClosed(atoms(doc))

\* the part of C16 that holds: the same, of trees where no argument's content
\* ends with a comment
C16_OutsideArguments ==
    (impl = "js" /\ pc = "done" /\ \A i \in 1..Len(ast) : ast[i] \notin CommentArgMacros) =>
        commentsClosed(atoms(doc))

====
